---- MODULE Spec2Model ----
(***************************************************************************)
(* Protocol plugin registry and point dispatch of the yanbing-edge         *)
(* gateway: the HTTP handlers of src/handler/device_handler.rs, the plugin *)
(* path validation of src/models/plugin.rs, and the collaborators they     *)
(* call (ProtocolStore, device_shadow, the plugin loader, the drivers).    *)
(***************************************************************************)
EXTENDS Integers, Sequences, FiniteSets, Bags, TLC

(* ------------------------------ bounds -------------------------------- *)

\* Largest wire value; Values are the integers 0..MaxValue.
MaxValue == 1
\* Last tick of the gateway clock that stamps shadow entries.
MaxTime == 1
\* Requests the gateway accepts in one behaviour.
MaxOps == 2
\* Longest plugin path, in characters.
MaxPathLen == 4

(* ------------------------------ universe ------------------------------ *)

Protocols == {"mockA", "mockB"}
Devices == {1, 2}
\* Driver modules: one echoes writes, one clamps a write to ClampMax.
Drivers == {"echo", "clamp"}
NoDriver == "none"
Values == 0..MaxValue
ClampMax == MaxValue - 1
\* Timestamps a client of the shadow may put with.
Times == 0..MaxTime

\* tb_point: point id -> owning device and access mode.
tb_point ==
    (1 :> [device_id |-> 1, access_mode |-> "ReadWrite"]) @@
    (2 :> [device_id |-> 2, access_mode |-> "ReadWrite"]) @@
    (3 :> [device_id |-> 1, access_mode |-> "ReadOnly"])
Points == DOMAIN tb_point
\* Point ids a request may name: the known ones and one that has no row.
PointIds == Points \cup {4}

(* ------------------------------ results ------------------------------- *)

Ok(v) == [ok |-> TRUE, value |-> v, err |-> ""]
Err(e) == [ok |-> FALSE, value |-> 0, err |-> e]
NoResult == [ok |-> FALSE, value |-> 0, err |-> "pending"]

\* EdgeError::Message("point不存在,请检查请求参数")
NoSuchPoint == "NoSuchPoint"
\* EdgeError::Message("协议不存在,检查服务配置")
NoSuchProtocol == "NoSuchProtocol"

(* --------------------------- plugin path ------------------------------ *)

PathChars == {"a", ".", "s", "o"}
\* std::env::consts::DLL_EXTENSION of the build
DLL_EXTENSION == <<"s", "o">>

RECURSIVE SeqsUpTo(_)
SeqsUpTo(n) ==
    IF n = 0 THEN {<<>>}
    ELSE LET shorter == SeqsUpTo(n - 1)
         IN  shorter \cup {Append(s, c) : s \in {x \in shorter : Len(x) = n - 1}, c \in PathChars}
\* Plugin paths: file names (no directory separator) of at most MaxPathLen characters.
Paths == SeqsUpTo(MaxPathLen)

\* Index of the last "." of a file name, 0 when it has none.
LastDot(name) ==
    LET dots == {i \in 1..Len(name) : name[i] = "."}
    IN  IF dots = {} THEN 0 ELSE CHOOSE i \in dots : \A j \in dots : j <= i

\* Path::extension: none for an empty path, for "." and "..", for a name without
\* a dot and for a name whose only dot is its first character; otherwise the part
\* after the last dot.
PathExtension(path) ==
    LET d == LastDot(path)
    IN  IF path = <<>> \/ path = <<".">> \/ path = <<".", ".">> THEN [some |-> FALSE, ext |-> <<>>]
        ELSE IF d <= 1 THEN [some |-> FALSE, ext |-> <<>>]
        ELSE [some |-> TRUE, ext |-> SubSeq(path, d + 1, Len(path))]

\* validate_path with the existence check dropped.
validate_path_no_exists(path, exists) ==
    LET extension == PathExtension(path)
    IN  extension.some /\ extension.ext = DLL_EXTENSION

\* validate_path: TRUE for Ok(()), FALSE for a ValidationError.
validate_path(path, exists) ==
    IF ~exists THEN FALSE
    ELSE LET extension == PathExtension(path)
         IN  extension.some /\ extension.ext = DLL_EXTENSION

(* ------------------------------ registry ------------------------------ *)

\* register that replaces silently.
RegistryRegisterReplacing(reg, name, driver, replace) ==
    [registry |-> [reg EXCEPT ![name] = driver], result |-> Ok(0)]

\* ProtocolRegistry.register: rejects a name already present unless replace is set.
RegistryRegister(reg, name, driver, replace) ==
    IF reg[name] # NoDriver /\ ~replace
    THEN [registry |-> reg, result |-> Err("DuplicateProtocol")]
    ELSE [registry |-> [reg EXCEPT ![name] = driver], result |-> Ok(0)]

\* ProtocolRegistry.get / protocol_map.get(&name)
RegistryGet(reg, name) == reg[name]

(* ------------------------------- shadow ------------------------------- *)

NoEntry == [present |-> FALSE, value |-> 0, ts |-> 0]
Entry(v, ts) == [present |-> TRUE, value |-> v, ts |-> ts]

\* put that overwrites whatever the timestamp.
ShadowPutAlways(sh, point_id, value, ts) ==
    [sh EXCEPT ![point_id] = Entry(value, ts)]

\* PointShadow.put: last write wins by timestamp; an older put is a no-op.
ShadowPut(sh, point_id, value, ts) ==
    IF sh[point_id].present /\ ts < sh[point_id].ts
    THEN sh
    ELSE [sh EXCEPT ![point_id] = Entry(value, ts)]

\* PointShadow.get
ShadowGet(sh, point_id) == sh[point_id]

(* ------------------------------- drivers ------------------------------ *)

Min(a, b) == IF a <= b THEN a ELSE b

\* The value a driver commits for a requested value.
Commit(drv, v) == IF drv = "clamp" THEN Min(v, ClampMax) ELSE v

\* DriverModule.write_point: the results the call may return.
DriverWritePoint(drv, access_mode, v) ==
    IF access_mode = "ReadOnly" THEN {Err("AccessModeError")}
    ELSE {Ok(Commit(drv, v)), Err("DriverError")}

\* DriverModule.read_point: the device may hold any value, or the I/O fails.
DriverReadPoint(drv, access_mode) ==
    {Ok(v) : v \in Values} \cup {Err("DriverError")}

(* ------------------------------- handlers ----------------------------- *)

\* writer_point_value returning the requested value when the driver fails.
writer_point_value_result_swallow(r, requested) ==
    IF r.ok THEN Ok(r.value) ELSE Ok(requested)

\* writer_point_value, lines 72-74: the driver's value is returned as it is, and
\* `?` forwards the driver's error.
writer_point_value_result(r, requested) ==
    IF r.ok THEN Ok(r.value) ELSE Err(r.err)

\* The shadow after writer_point_value: the handler never calls device_shadow.
writer_point_value_shadow(sh, point_id, r, ts) == sh

OkEntry(e) == [ok |-> TRUE, entry |-> e, err |-> ""]
ErrEntry(e) == [ok |-> FALSE, entry |-> NoEntry, err |-> e]

\* read_point_value answering Ok with an empty value when the read fails.
read_point_value_result_swallow(r) ==
    IF r.ok THEN Ok(r.entry.value) ELSE Ok(0)

\* read_point_value returning the entry's timestamp for its value.
read_point_value_result_stamp(r) ==
    IF r.ok THEN Ok(r.entry.ts) ELSE Err(r.err)

\* read_point_value, lines 53-55: .map(|e| e.value)? on device_shadow::read_point.
read_point_value_result(r) ==
    IF r.ok THEN Ok(r.entry.value) ELSE Err(r.err)

\* get_point_with_protocol_id: the point joined with its device's protocol name.
get_point_with_protocol_id(devs, id) ==
    IF id \in Points
    THEN [found |-> TRUE, point_id |-> id, access_mode |-> tb_point[id].access_mode,
          protocol_name |-> devs[tb_point[id].device_id]]
    ELSE [found |-> FALSE, point_id |-> 0, access_mode |-> "", protocol_name |-> ""]

(* -------------------------------- state ------------------------------- *)

VARIABLES
    registry,    \* store.inner: protocol name -> driver handle
    writerPref,  \* whether the platform's RwLock turns readers away while a writer waits
    tb_device,   \* tb_device.protocol_name of each device
    shadow,      \* PointShadow: point id -> entry
    inflight,    \* the requests being served, each with its position (a bag)
    resp,        \* the response the last step sent, if it sent one
    started,     \* requests accepted so far; the gateway's clock ticks once per request
    limit,       \* requests the gateway is sent in this run
    install,     \* the last plugin load of the sequential loader
    puts,        \* per point, the puts made on the shadow
    shadowOp     \* the last call on PointShadow made by the shadow's own client

vars == <<registry, writerPref, tb_device, shadow, inflight, resp, started, limit,
          limit, install, puts, shadowOp>>

\* A request in flight: pc is its position in its handler.
NoReq == [pc |-> "none", op |-> "none", point |-> 0, proto |-> "", access |-> "",
          value |-> 0, drv |-> NoDriver, flag |-> FALSE]
\* A response: the request it answers, whether a driver was called, the result.
NoResp == [req |-> NoReq, live |-> FALSE, res |-> NoResult]
NoInstall == [path |-> <<>>, exists |-> FALSE, name |-> "", driver |-> NoDriver,
              replace |-> FALSE, loaded |-> FALSE, outcome |-> "none"]
\* A call on PointShadow: entry is the point's entry before a put, the entry a get returned.
NoShadowOp == [op |-> "none", point |-> 0, value |-> 0, ts |-> 0, entry |-> NoEntry]

InFlight == BagToSet(inflight)
\* Requests holding a read guard of store.inner: writer_point_value keeps the guard
\* of line 68 until it returns.
RwReaders == {r \in InFlight : r.pc = "w_io"}
\* Registrations waiting for the write side of store.inner.
RwWaiting == {r \in InFlight : r.pc = "reg_wait"}
\* Requests holding the read guard of a protocol's driver (line 72).
DrvReaders(name) == {r \in InFlight : r.pc = "w_io" /\ r.proto = name}
\* Requests inside a driver's read_point or write_point.
InDriver == {r \in InFlight : r.pc \in {"w_io", "rd_io"}}

InitCommon ==
    /\ tb_device = (1 :> "mockA") @@ (2 :> "mockB")
    /\ shadow = [p \in Points |-> NoEntry]
    /\ inflight = EmptyBag
    /\ resp = NoResp
    /\ started = 0
    /\ puts = [p \in Points |-> {}]
    /\ shadowOp = NoShadowOp

\* After routers::register and the start-up plugin loads: any registry content.
Init ==
    /\ InitCommon
    /\ registry \in [Protocols -> Drivers \cup {NoDriver}]
    /\ writerPref \in BOOLEAN
    /\ limit = MaxOps
    /\ install = NoInstall

\* store.inner.read() succeeds at once unless the lock holds readers back for a
\* waiting writer (the write side is never held across a step).
CanAcquireRead == ~(writerPref /\ RwWaiting # {})

\* store.inner.write() succeeds once no read guard is out.
CanAcquireWrite == RwReaders = {}

\* The gateway's clock.
Now == started

Accept ==
    /\ started < limit
    /\ started' = started + 1

\* Request r enters the handler at position r.pc.
Begin(r) ==
    /\ inflight' = inflight (+) SetToBag({r})
    /\ resp' = NoResp

\* Request r moves on as request r2.
Step(r, r2) ==
    /\ inflight' = (inflight (-) SetToBag({r})) (+) SetToBag({r2})
    /\ resp' = NoResp

\* Request r is answered.
Finish(r, live, result) ==
    /\ inflight' = inflight (-) SetToBag({r})
    /\ resp' = [req |-> r, live |-> live, res |-> result]

\* A request answered by the step that accepts it.
Answer(r, live, result) ==
    /\ inflight' = inflight
    /\ resp' = [req |-> r, live |-> live, res |-> result]

(* ------------------------------ write path ---------------------------- *)

\* writer_point_value, lines 63-66 and 70-71: fetch the point, build the request.
writer_point_value(id, value) ==
    /\ Accept
    /\ LET point == get_point_with_protocol_id(tb_device, id)
           r == [NoReq EXCEPT !.pc = "w_lock", !.op = "write", !.point = id,
                      !.proto = point.protocol_name, !.access = point.access_mode,
                      !.value = value]
       IN  IF ~point.found
           THEN Answer(r, FALSE, Err(NoSuchPoint))
           ELSE Begin(r)
    /\ UNCHANGED <<registry, writerPref, tb_device, shadow, limit, install, puts, shadowOp>>

\* writer_point_value, lines 67-72: take the read guard of store.inner, look the
\* protocol up, take the driver's read guard and enter write_point with both held.
writer_point_value_lock(r) ==
    /\ r.pc = "w_lock"
    /\ CanAcquireRead
    /\ LET protocol == RegistryGet(registry, r.proto)
       IN  IF protocol = NoDriver
           THEN Finish(r, FALSE, Err(NoSuchProtocol))
           ELSE Step(r, [r EXCEPT !.pc = "w_io", !.drv = protocol])
    /\ UNCHANGED <<registry, writerPref, tb_device, shadow, started, limit, install, puts, shadowOp>>

\* writer_point_value, lines 72-75: write_point returns, the guards drop, the
\* driver's result goes back to the caller.
writer_point_value_return(r) ==
    /\ r.pc = "w_io"
    /\ \E d \in DriverWritePoint(r.drv, r.access, r.value) :
          /\ Finish(r, TRUE, writer_point_value_result(d, r.value))
          /\ shadow' = writer_point_value_shadow(shadow, r.point, d, Now)
    /\ UNCHANGED <<registry, writerPref, tb_device, started, limit, install, puts, shadowOp>>

(* ------------------------------- read path ---------------------------- *)

\* DispatchEngine.read, first branch: a use_shadow read is answered from the shadow
\* when a fresh entry exists. No operation of this scope marks an entry stale: an
\* entry is fresh once put.
ShadowAnswers(sh, point_id, use_shadow) ==
    use_shadow /\ ShadowGet(sh, point_id).present

\* read_point_value, lines 51-53, entering device_shadow::read_point: the shadow
\* answers the read, or the read goes on to the registry.
read_point_value(id, use_shadow) ==
    /\ Accept
    /\ LET point == get_point_with_protocol_id(tb_device, id)
           entry == IF point.found THEN ShadowGet(shadow, id) ELSE NoEntry
           r == [NoReq EXCEPT !.pc = "rd_lock", !.op = "read", !.point = id,
                      !.proto = point.protocol_name, !.access = point.access_mode,
                      !.flag = use_shadow]
       IN  IF ~point.found
           THEN Answer(r, FALSE, Err(NoSuchPoint))
           ELSE IF ShadowAnswers(shadow, id, use_shadow)
           THEN Answer(r, FALSE, read_point_value_result(OkEntry(entry)))
           ELSE Begin(r)
    /\ UNCHANGED <<registry, writerPref, tb_device, shadow, limit, install, puts, shadowOp>>

\* device_shadow::read_point resolving the driver: the read guard of store.inner is
\* held for the lookup only.
ReadResolve(r) ==
    /\ r.pc = "rd_lock"
    /\ CanAcquireRead
    /\ LET protocol == RegistryGet(registry, r.proto)
       IN  IF protocol = NoDriver
           THEN Finish(r, FALSE, read_point_value_result(ErrEntry(NoSuchProtocol)))
           ELSE Step(r, [r EXCEPT !.pc = "rd_io", !.drv = protocol])
    /\ UNCHANGED <<registry, writerPref, tb_device, shadow, started, limit, install, puts, shadowOp>>

\* device_shadow::read_point after the driver's read_point returns: a value read is
\* put in the shadow and returned, an error is returned.
ReadComplete(r) ==
    /\ r.pc = "rd_io"
    /\ \E d \in DriverReadPoint(r.drv, r.access) :
          IF d.ok
          THEN /\ shadow' = ShadowPut(shadow, r.point, d.value, Now)
               /\ Finish(r, TRUE, read_point_value_result(OkEntry(Entry(d.value, Now))))
          ELSE /\ shadow' = shadow
               /\ Finish(r, TRUE, read_point_value_result(ErrEntry(d.err)))
    /\ UNCHANGED <<registry, writerPref, tb_device, started, limit, install, puts, shadowOp>>

(* ------------------------------ plugin load --------------------------- *)

\* PluginLoader.load up to the registration: validation first, then the load of
\* the module, which fails when the module does not expose the driver contract.
PluginLoaderLoad(path, exists, exposes) ==
    IF ~validate_path(path, exists) THEN [outcome |-> "ValidationError", loaded |-> FALSE]
    ELSE IF ~exposes THEN [outcome |-> "LoadError", loaded |-> TRUE]
    ELSE [outcome |-> "Loaded", loaded |-> TRUE]

\* Paths the concurrent gateway is asked to install.
InstallPaths == {<<"a", ".", "s", "o">>, <<"a", ".", "o">>}

\* create_plugin_config: validate and load the module, then ask for the write side
\* of store.inner.
create_plugin_config(path, exists, exposes, name, driver, replace) ==
    /\ Accept
    /\ LET l == PluginLoaderLoad(path, exists, exposes)
           r == [NoReq EXCEPT !.pc = "reg_wait", !.op = "install", !.proto = name,
                      !.drv = driver, !.flag = replace]
       IN  IF l.outcome = "Loaded"
           THEN Begin(r)
           ELSE Answer(r, l.loaded, Err(l.outcome))
    /\ UNCHANGED <<registry, writerPref, tb_device, shadow, limit, install, puts, shadowOp>>

\* ProtocolStore registration: the write side of store.inner is taken once no read
\* guard is out, the map is changed and the guard dropped.
RegisterCommit(r) ==
    /\ r.pc = "reg_wait"
    /\ CanAcquireWrite
    /\ LET out == RegistryRegister(registry, r.proto, r.drv, r.flag)
       IN  /\ registry' = out.registry
           /\ Finish(r, TRUE, out.result)
    /\ UNCHANGED <<writerPref, tb_device, shadow, started, limit, install, puts, shadowOp>>

(* ------------------------------- the rest ------------------------------ *)

\* update_device: the device's protocol_name column is rewritten.
update_device(d, protocol_name) ==
    /\ Accept
    /\ tb_device[d] # protocol_name
    /\ tb_device' = [tb_device EXCEPT ![d] = protocol_name]
    /\ resp' = NoResp
    /\ UNCHANGED <<registry, writerPref, shadow, inflight, limit, install, puts, shadowOp>>

Next ==
    \/ \E id \in PointIds, v \in Values : writer_point_value(id, v)
    \/ \E r \in InFlight : writer_point_value_lock(r)
    \/ \E r \in InFlight : writer_point_value_return(r)
    \/ \E id \in PointIds, use_shadow \in BOOLEAN : read_point_value(id, use_shadow)
    \/ \E r \in InFlight : ReadResolve(r)
    \/ \E r \in InFlight : ReadComplete(r)
    \/ \E path \in InstallPaths, exists \in BOOLEAN, exposes \in BOOLEAN,
          name \in Protocols, driver \in Drivers, replace \in BOOLEAN :
          create_plugin_config(path, exists, exposes, name, driver, replace)
    \/ \E r \in InFlight : RegisterCommit(r)
    \/ \E d \in Devices, p \in Protocols : update_device(d, p)

Spec == Init /\ [][Next]_vars

(* ---------------------- a longer run of the gateway -------------------- *)

InitConc ==
    /\ InitCommon
    /\ registry \in [Protocols -> Drivers \cup {NoDriver}]
    /\ writerPref \in BOOLEAN
    /\ limit = MaxOps + 1
    /\ install = NoInstall

SpecConc == InitConc /\ [][Next]_vars

(* ------------------------ the loader on its own ------------------------ *)

\* A load request for any path, on a file system that holds the file or not.
InitPlugin ==
    /\ InitCommon
    /\ registry \in [Protocols -> Drivers \cup {NoDriver}]
    /\ writerPref = FALSE
    /\ limit = 1
    /\ \E path \in Paths, exists \in BOOLEAN :
          /\ path = <<>> => ~exists
          /\ install = [NoInstall EXCEPT !.path = path, !.exists = exists]

\* PluginLoader.load(path, declared_name): validate, load, register.
LoadPlugin(exposes, name, driver, replace) ==
    /\ install.outcome = "none"
    /\ Accept
    /\ LET l == PluginLoaderLoad(install.path, install.exists, exposes)
           out == RegistryRegister(registry, name, driver, replace)
           log == [install EXCEPT !.name = name, !.driver = driver, !.replace = replace,
                                  !.loaded = l.loaded]
       IN  IF l.outcome = "Loaded"
           THEN /\ registry' = out.registry
                /\ install' = [log EXCEPT !.outcome = IF out.result.ok THEN "Registered"
                                                      ELSE out.result.err]
           ELSE /\ registry' = registry
                /\ install' = [log EXCEPT !.outcome = l.outcome]
    /\ UNCHANGED <<writerPref, tb_device, shadow, inflight, resp, limit, puts, shadowOp>>

NextPlugin ==
    \E exposes \in BOOLEAN, name \in Protocols, driver \in Drivers, replace \in BOOLEAN :
        LoadPlugin(exposes, name, driver, replace)

SpecPlugin == InitPlugin /\ [][NextPlugin]_vars

(* ------------------------ the shadow on its own ------------------------ *)

InitShadow ==
    /\ InitCommon
    /\ registry = [p \in Protocols |-> NoDriver]
    /\ writerPref = FALSE
    /\ limit = MaxOps + 1
    /\ install = NoInstall

\* A client puts (value, ts) for a point; timestamps arrive in any order.
ShadowPutOp(point_id, value, ts) ==
    /\ Accept
    /\ shadow' = ShadowPut(shadow, point_id, value, ts)
    /\ puts' = [puts EXCEPT ![point_id] = @ \cup {<<value, ts>>}]
    /\ shadowOp' = [op |-> "put", point |-> point_id, value |-> value, ts |-> ts,
                    entry |-> shadow[point_id]]
    /\ UNCHANGED <<registry, writerPref, tb_device, inflight, resp, limit, install>>

\* A client gets a point's entry.
ShadowGetOp(point_id) ==
    /\ Accept
    /\ shadowOp' = [op |-> "get", point |-> point_id, value |-> 0, ts |-> 0,
                    entry |-> ShadowGet(shadow, point_id)]
    /\ UNCHANGED <<registry, writerPref, tb_device, shadow, inflight, resp, limit,
                   install, puts>>

NextShadow ==
    \/ \E p \in Points, v \in Values, ts \in Times : ShadowPutOp(p, v, ts)
    \/ \E p \in Points : ShadowGetOp(p)

SpecShadow == InitShadow /\ [][NextShadow]_vars

(* ------------------------------- claims -------------------------------- *)

\* C1: a registration without the replace flag under a name that is already
\* registered answers DuplicateProtocol and leaves the name's driver as it was; a
\* registered name changes its driver only by a registration with the replace flag.
C1_DuplicateRejected ==
    [][ /\ \A r \in InFlight :
              ( /\ r.pc = "reg_wait"
                /\ ~r.flag
                /\ RegistryGet(registry, r.proto) # NoDriver
                /\ RegisterCommit(r) )
              => /\ resp'.req = r
                 /\ resp'.res = Err("DuplicateProtocol")
                 /\ RegistryGet(registry', r.proto) = RegistryGet(registry, r.proto)
        /\ \A name \in Protocols :
              (registry[name] # NoDriver /\ registry'[name] # registry[name])
              => \E r \in InFlight : r.flag /\ r.proto = name /\ RegisterCommit(r)
      ]_vars

\* A second driver was refused and the first one is still the one registered.
C1_Witness ==
    /\ resp.req.op = "install"
    /\ resp.res = Err("DuplicateProtocol")
    /\ RegistryGet(registry, resp.req.proto) # NoDriver
    /\ RegistryGet(registry, resp.req.proto) # resp.req.drv

\* The path names a file "<stem>.<DLL_EXTENSION>" with a stem of at least one character.
HasNativeSuffix(path) ==
    LET n == Len(path)
        k == Len(DLL_EXTENSION)
    IN  /\ n > k + 1
        /\ path[n - k] = "."
        /\ SubSeq(path, n - k + 1, n) = DLL_EXTENSION

\* C2: a load of a path that does not exist, or whose extension is not the
\* platform's native-module suffix, ends in a ValidationError with no load of the
\* module attempted and the registry as it was.
C2_InvalidPathRejected ==
    [][ ( /\ install.outcome = "none"
          /\ install'.outcome # "none"
          /\ (~install.exists \/ ~HasNativeSuffix(install.path)) )
        => /\ install'.outcome = "ValidationError"
           /\ ~install'.loaded
           /\ registry' = registry
      ]_vars

\* A file that exists and has an extension other than the native one was refused.
C2_Witness ==
    /\ install.outcome = "ValidationError"
    /\ install.exists
    /\ PathExtension(install.path).some
    /\ ~install.loaded

\* C3 as stated: every write to a read-only point is answered AccessModeError.
C3_Original ==
    (resp.req.op = "write" /\ resp.req.access = "ReadOnly")
    => resp.res = Err("AccessModeError")

\* C3 as amended: no step of a write to a read-only point changes the shadow; the
\* write is answered NoSuchProtocol when the point's protocol has no driver, and
\* AccessModeError, the driver's refusal, when it has one.
C3_ReadOnlyWriteFails ==
    [][ /\ \A id \in Points, v \in Values :
              (tb_point[id].access_mode = "ReadOnly" /\ writer_point_value(id, v))
              => shadow' = shadow
        /\ \A r \in InFlight :
              (r.op = "write" /\ r.access = "ReadOnly")
              => /\ writer_point_value_lock(r)
                    => /\ shadow' = shadow
                       /\ RegistryGet(registry, r.proto) = NoDriver
                          => resp' = [req |-> r, live |-> FALSE, res |-> Err(NoSuchProtocol)]
                       /\ RegistryGet(registry, r.proto) # NoDriver => resp' = NoResp
                 /\ writer_point_value_return(r)
                    => /\ shadow' = shadow
                       /\ resp' = [req |-> r, live |-> TRUE, res |-> Err("AccessModeError")]
      ]_vars

\* A driver refused the write of a read-only point.
C3_Witness ==
    /\ resp.req.op = "write"
    /\ resp.req.access = "ReadOnly"
    /\ resp.live
    /\ resp.res = Err("AccessModeError")

\* C4: when a write succeeds, the result and the point's shadow entry both hold
\* the value the driver committed.
C4_WriteUpdatesShadow ==
    (resp.req.op = "write" /\ resp.res.ok)
    => /\ resp.res.value = Commit(resp.req.drv, resp.req.value)
       /\ ShadowGet(shadow, resp.req.point).present
       /\ ShadowGet(shadow, resp.req.point).value = resp.res.value

\* C5: a use_shadow read of a point, sent right after a write of v to it succeeded
\* on an echoing driver, is answered v by the step that accepts it, with no driver
\* call.
C5_ShadowReadAfterWrite ==
    [][ \A p \in Points :
          ( /\ resp.req.op = "write"
            /\ resp.res.ok
            /\ resp.req.point = p
            /\ resp.req.drv = "echo"
            /\ read_point_value(p, TRUE) )
          => /\ resp'.req.op = "read"
             /\ ~resp'.live
             /\ resp'.res = Ok(resp.req.value)
      ]_vars

\* C6: a read that reaches the registry for a protocol name without a driver is
\* answered NoSuchProtocol, with no driver call and the shadow as it was.
C6_NoSuchProtocol ==
    [][ \A r \in InFlight :
          ( /\ r.op = "read"
            /\ RegistryGet(registry, r.proto) = NoDriver
            /\ ReadResolve(r) )
          => /\ resp' = [req |-> r, live |-> FALSE, res |-> Err(NoSuchProtocol)]
             /\ shadow' = shadow
      ]_vars

\* A read was answered NoSuchProtocol.
C6_Witness ==
    /\ resp.req.op = "read"
    /\ resp.req.point \in Points
    /\ RegistryGet(registry, resp.req.proto) = NoDriver
    /\ resp.res = Err(NoSuchProtocol)

\* C7: a point's entry is the put with the newest timestamp among the puts made
\* for it, a put older than the entry leaves the entry as it was, and a get
\* returns the entry.
C7_NewestPutWins ==
    /\ \A p \in Points :
          IF puts[p] = {} THEN ~ShadowGet(shadow, p).present
          ELSE /\ ShadowGet(shadow, p).present
               /\ <<ShadowGet(shadow, p).value, ShadowGet(shadow, p).ts>> \in puts[p]
               /\ \A q \in puts[p] : q[2] <= ShadowGet(shadow, p).ts
    /\ (shadowOp.op = "put" /\ shadowOp.entry.present /\ shadowOp.ts < shadowOp.entry.ts)
       => ShadowGet(shadow, shadowOp.point) = shadowOp.entry
    /\ shadowOp.op = "get"
       => \A q \in puts[shadowOp.point] :
             shadowOp.entry.present /\ q[2] <= shadowOp.entry.ts

\* A put older than the entry, with another value, was just made.
C7_Witness ==
    /\ shadowOp.op = "put"
    /\ shadowOp.entry.present
    /\ shadowOp.ts < shadowOp.entry.ts
    /\ shadowOp.value # shadowOp.entry.value

\* C8: a write that is about to take the registry's read guard is never held up
\* while a write to another point of another protocol is inside its driver call.
C8_WritesIndependent ==
    \A r1 \in InFlight, r2 \in InFlight :
        ( /\ r1.pc = "w_lock"
          /\ r2.pc = "w_io"
          /\ r1.point # r2.point
          /\ r1.proto # r2.proto
          /\ RegistryGet(registry, r1.proto) # NoDriver )
        => ENABLED writer_point_value_lock(r1)

\* C9: a use_shadow read that finds an entry is answered with the entry's value by
\* the step that accepts it; any other read of a known point goes to the registry,
\* is answered NoSuchProtocol there or enters the driver's read_point, and a value
\* the driver returns is the point's shadow entry and the answer.
C9_ReadDispatch ==
    [][ /\ \A p \in Points, use_shadow \in BOOLEAN :
              read_point_value(p, use_shadow)
              => IF use_shadow /\ ShadowGet(shadow, p).present
                 THEN /\ resp'.req.op = "read" /\ resp'.req.point = p
                      /\ ~resp'.live
                      /\ resp'.res = Ok(ShadowGet(shadow, p).value)
                      /\ inflight' = inflight
                      /\ shadow' = shadow
                 ELSE /\ resp' = NoResp
                      /\ \E r \in BagToSet(inflight') :
                            /\ r.op = "read" /\ r.pc = "rd_lock" /\ r.point = p
                            /\ CopiesIn(r, inflight') = CopiesIn(r, inflight) + 1
        /\ \A r \in InFlight :
              /\ ReadResolve(r)
                 => IF RegistryGet(registry, r.proto) = NoDriver
                    THEN resp'.req = r /\ resp'.res = Err(NoSuchProtocol)
                    ELSE /\ resp' = NoResp
                         /\ [r EXCEPT !.pc = "rd_io", !.drv = RegistryGet(registry, r.proto)]
                               \in BagToSet(inflight')
              /\ ReadComplete(r)
                 => /\ resp'.req = r
                    /\ resp'.live
                    /\ resp'.res.ok
                       => /\ ShadowGet(shadow', r.point).present
                          /\ ShadowGet(shadow', r.point).value = resp'.res.value
                    /\ ~resp'.res.ok => shadow' = shadow
      ]_vars

\* A use_shadow read was answered from the shadow.
C9_Witness ==
    /\ resp.req.op = "read"
    /\ resp.req.flag
    /\ ~resp.live
    /\ resp.res.ok
    /\ resp.res.value = ShadowGet(shadow, resp.req.point).value

\* C10: no request is inside a driver call while it holds a guard of the
\* registry's lock, and a waiting registration can take the write side whenever
\* driver calls are all that is in progress.
C10_NoLockAcrossDriverIO ==
    /\ \A r \in InDriver : r \notin RwReaders
    /\ \A r \in RwWaiting : InDriver # {} => ENABLED RegisterCommit(r)

====
